---- MODULE Spec2Model ----
(***************************************************************************)
(* Model of web_dmhr.py, the Streamlit DMHR calculator.                    *)
(*                                                                         *)
(* The script is re-executed from top to bottom on every user interaction. *)
(* One action of the model is one such execution: a run in which the user  *)
(* changed a widget (no button pressed), or a run in which one of the two  *)
(* buttons was pressed and the calculation handler ran.                    *)
(*                                                                         *)
(* Numbers.  Python floats are modelled as exact rationals <<n, d>> in     *)
(* lowest terms with d > 0.  The binary rounding error of a float is not   *)
(* modelled; round(x, 2) and the ".2f" format are modelled as rounding of  *)
(* the exact value to two decimals, ties to even.                          *)
(***************************************************************************)
EXTENDS Integers, Sequences, FiniteSets, TLC

VARIABLES mode, mc_count, machine_inputs, form,
          results, results_df, calc, metrics, report,
          outcome, calls, call, ret

vars == <<mode, mc_count, machine_inputs, form,
          results, results_df, calc, metrics, report,
          outcome, calls, call, ret>>

-----------------------------------------------------------------------------
(* Rational arithmetic standing for Python float arithmetic.               *)

Abs(a) == IF a < 0 THEN -a ELSE a

RECURSIVE GCD(_, _)
GCD(a, b) == IF b = 0 THEN a ELSE GCD(b, a % b)

\* The rational n/d (d # 0) in lowest terms with a positive denominator.
Rat(n, d) ==
    LET g == GCD(Abs(n), Abs(d))
        s == IF d < 0 THEN -1 ELSE 1
    IN  <<s * (n \div g), s * (d \div g)>>

\* The float of an integer literal.
R(n) == <<n, 1>>

Zero == R(0)

RAdd(x, y) ==
    LET g == GCD(x[2], y[2])
        l == (x[2] \div g) * y[2]
    IN  Rat(x[1] * (l \div x[2]) + y[1] * (l \div y[2]), l)

RMul(x, y) ==
    LET g1 == GCD(Abs(x[1]), y[2])
        g2 == GCD(Abs(y[1]), x[2])
    IN  Rat((x[1] \div g1) * (y[1] \div g2), (x[2] \div g2) * (y[2] \div g1))

\* x / y for y # 0; the callers raise ZeroDivisionError for y = 0 first.
RDiv(x, y) ==
    RMul(x, IF y[1] < 0 THEN <<-y[2], -y[1]>> ELSE <<y[2], y[1]>>)

RLess(x, y) == x[1] * y[2] < y[1] * x[2]

RLeq(x, y) == x[1] * y[2] <= y[1] * x[2]

\* The absent max_value of a number_input: above every value.
NoMax == <<1, 0>>

\* round(x, 2): the nearest multiple of 1/100, ties to the even one.
Round2(x) ==
    LET ip   == x[1] \div x[2]
        rem  == x[1] % x[2]
        k    == (rem * 100) \div x[2]
        f    == (rem * 100) % x[2]
        up   == \/ 2 * f > x[2]
                \/ 2 * f = x[2] /\ k % 2 = 1
        c    == IF up THEN k + 1 ELSE k
    IN  RAdd(R(ip), Rat(c, 100))

\* f"{x:,.2f}": the value the formatted text shows.
Format2(x) == Round2(x)

-----------------------------------------------------------------------------
(* Calculation functions.  A call either returns a value or raises.        *)

Return(v) == [kind |-> "return", value |-> v]

Raise(e) == [kind |-> "raise", exc |-> e]

\* A copy-paste slip: the insurance term takes the inflation rate.
calculate_fixed_costs_rate_slip(Pm, Ls, inflation_rate, insurance_rate, am, Af, Cb, Hf, Oc, tax_env_cost) ==
    IF Ls = Zero
    THEN Raise("ZeroDivisionError")
    ELSE LET amortized_cost       == RDiv(Pm, Ls)
             inflation_adjustment == RMul(Pm, inflation_rate)
             insurance_cost       == RMul(Pm, inflation_rate)
             building_space_cost  == IF Af # Zero THEN RMul(RDiv(am, Af), Cb) ELSE Zero
             overhead_cost        == RMul(RDiv(Hf, Ls), Oc)
             FC == RAdd(RAdd(RAdd(RAdd(RAdd(amortized_cost, inflation_adjustment),
                                            insurance_cost),
                                       building_space_cost),
                                  overhead_cost),
                             tax_env_cost)
         IN  Return(FC)

calculate_fixed_costs(Pm, Ls, inflation_rate, insurance_rate, am, Af, Cb, Hf, Oc, tax_env_cost) ==
    IF Ls = Zero
    THEN Raise("ZeroDivisionError")
    ELSE LET amortized_cost       == RDiv(Pm, Ls)
             inflation_adjustment == RMul(Pm, inflation_rate)
             insurance_cost       == RMul(Pm, insurance_rate)
             building_space_cost  == IF Af # Zero THEN RMul(RDiv(am, Af), Cb) ELSE Zero
             overhead_cost        == RMul(RDiv(Hf, Ls), Oc)
             FC == RAdd(RAdd(RAdd(RAdd(RAdd(amortized_cost, inflation_adjustment),
                                            insurance_cost),
                                       building_space_cost),
                                  overhead_cost),
                             tax_env_cost)
         IN  Return(FC)

calculate_variable_costs(Pt_m, Rt, Sm, Um, labour_rate, Hf) ==
    LET energy_cost      == RMul(Pt_m, Rt)
        maintenance_cost == RAdd(Sm, Um)
        labour_cost      == RMul(labour_rate, Hf)
        VC == RAdd(RAdd(energy_cost, maintenance_cost), labour_cost)
    IN  Return(VC)

\* A missing pair of parentheses: FC + VC / Hf.
calculate_dmhr_precedence(FC, VC, Hf) ==
    IF Hf = Zero
    THEN Raise("ZeroDivisionError")
    ELSE Return(RAdd(FC, RDiv(VC, Hf)))

calculate_dmhr(FC, VC, Hf) ==
    IF Hf = Zero
    THEN Raise("ZeroDivisionError")
    ELSE Return(RDiv(RAdd(FC, VC), Hf))

-----------------------------------------------------------------------------
(* Input widgets.                                                          *)

\* st.number_input(min_value, max_value): a typed value is taken only when
\* it lies in the widget's range.
\* A widget that does not enforce its min_value.
NumberInputNoMin(v, min_value, max_value) == RLeq(v, max_value)

NumberInput(v, min_value, max_value) == RLeq(min_value, v) /\ RLeq(v, max_value)

MinMachines == 2

MaxMachines == 6

\* Default text of the label widget of machine i (0-based i in the code).
DefaultLabel(i) ==
    <<"Machine_1", "Machine_2", "Machine_3", "Machine_4", "Machine_5", "Machine_6">>[i]

\* A machine's widgets before the user touched them: a number_input without
\* value= starts at its min_value.
DefaultMachine(i) ==
    [Machine |-> DefaultLabel(i),
     Pm |-> R(0), Ls |-> R(1), inflation_rate |-> R(0), insurance_rate |-> R(0),
     am |-> R(0), Af |-> R(1), Cb |-> R(0), Hf |-> R(1), Oc |-> R(0),
     tax_env_cost |-> R(0), Pt_m |-> R(0), Rt |-> R(0), Sm |-> R(0), Um |-> R(0),
     labour_rate |-> R(0)]

\* The ranges of the sixteen widgets of one machine expander.
MachineWidgets(m) ==
    /\ NumberInput(m.Pm, R(0), NoMax)
    /\ NumberInput(m.Ls, R(1), NoMax)
    /\ NumberInput(m.inflation_rate, R(0), R(1))
    /\ NumberInput(m.insurance_rate, R(0), R(1))
    /\ NumberInput(m.am, R(0), NoMax)
    /\ NumberInput(m.Af, R(1), NoMax)
    /\ NumberInput(m.Cb, R(0), NoMax)
    /\ NumberInput(m.Hf, R(1), NoMax)
    /\ NumberInput(m.Oc, R(0), NoMax)
    /\ NumberInput(m.tax_env_cost, R(0), NoMax)
    /\ NumberInput(m.Pt_m, R(0), NoMax)
    /\ NumberInput(m.Rt, R(0), NoMax)
    /\ NumberInput(m.Sm, R(0), NoMax)
    /\ NumberInput(m.Um, R(0), NoMax)
    /\ NumberInput(m.labour_rate, R(0), NoMax)

\* The ranges of the fifteen number inputs of the single-machine form.
FormWidgets(m) ==
    /\ NumberInput(m.Pm, R(0), NoMax)
    /\ NumberInput(m.Ls, R(1), NoMax)
    /\ NumberInput(m.inflation_rate, R(0), R(1))
    /\ NumberInput(m.insurance_rate, R(0), R(1))
    /\ NumberInput(m.am, R(0), NoMax)
    /\ NumberInput(m.Af, R(1), NoMax)
    /\ NumberInput(m.Cb, R(0), NoMax)
    /\ NumberInput(m.Hf, R(1), NoMax)
    /\ NumberInput(m.Oc, R(0), NoMax)
    /\ NumberInput(m.tax_env_cost, R(0), NoMax)
    /\ NumberInput(m.Pt_m, R(0), NoMax)
    /\ NumberInput(m.Rt, R(0), NoMax)
    /\ NumberInput(m.Sm, R(0), NoMax)
    /\ NumberInput(m.Um, R(0), NoMax)
    /\ NumberInput(m.labour_rate, R(0), NoMax)

\* The value= defaults of the single-machine form.
FormDefaults ==
    [Pm |-> R(500000), Ls |-> R(20000), inflation_rate |-> Rat(5, 100),
     insurance_rate |-> Rat(2, 100), am |-> R(50), Af |-> R(500), Cb |-> R(1000000),
     Hf |-> R(1000), Oc |-> R(500000), tax_env_cost |-> R(50000), Pt_m |-> R(2000),
     Rt |-> R(50), Sm |-> R(100000), Um |-> R(50000), labour_rate |-> R(1000)]

-----------------------------------------------------------------------------
(* Values a user types.                                                    *)

MachineA == [Machine |-> "A"] @@ FormDefaults

\* Every value of MachineA halved, hours used kept.
MachineB ==
    [Machine |-> "B"] @@
    [f \in DOMAIN FormDefaults |->
        IF f = "Hf" THEN FormDefaults[f] ELSE RMul(FormDefaults[f], Rat(1, 2))]

\* A machine whose costs are fractions of a cent, labelled like MachineA.
MachineF ==
    [Machine |-> "A",
     Pm |-> R(1), Ls |-> R(250), inflation_rate |-> R(0), insurance_rate |-> R(0),
     am |-> R(0), Af |-> R(1), Cb |-> R(0), Hf |-> R(1), Oc |-> R(0),
     tax_env_cost |-> R(0), Pt_m |-> R(1), Rt |-> Rat(1, 250), Sm |-> R(0), Um |-> R(0),
     labour_rate |-> R(0)]

\* What the user may type into one machine's widgets, in range or not.
TypedMachines ==
    {MachineA, MachineB, MachineF,
     [MachineF EXCEPT !.Ls = R(0)],
     [MachineF EXCEPT !.Af = R(0)],
     [MachineF EXCEPT !.Hf = R(0)],
     [MachineF EXCEPT !.Hf = Rat(1, 2)],
     [MachineF EXCEPT !.Pm = R(-1)],
     [MachineF EXCEPT !.inflation_rate = R(2)]}

\* The typed machines whose every value its widget takes.
AcceptedMachines == {m \in TypedMachines : MachineWidgets(m)}

\* The same values typed into the single-machine form, which has no label.
TypedForms ==
    {[f \in DOMAIN FormDefaults |-> m[f]] : m \in TypedMachines}

-----------------------------------------------------------------------------
(* The comparison loop of the "Compare All Machines" handler.              *)

\* The rate taken from the rounded costs instead of the DMHR computed.
ResultRecordRoundedFirst(m, FC, VC, DMHR) ==
    [Machine      |-> m.Machine,
     FixedCost    |-> Round2(FC),
     VariableCost |-> Round2(VC),
     DMHR         |-> Round2(RDiv(RAdd(Round2(FC), Round2(VC)), m.Hf)),
     HoursUsed    |-> m.Hf,
     PurchaseCost |-> m.Pm,
     Lifespan     |-> m.Ls]

\* The dict appended to results for machine m.
ResultRecord(m, FC, VC, DMHR) ==
    [Machine      |-> m.Machine,
     FixedCost    |-> Round2(FC),
     VariableCost |-> Round2(VC),
     DMHR         |-> Round2(DMHR),
     HoursUsed    |-> m.Hf,
     PurchaseCost |-> m.Pm,
     Lifespan     |-> m.Ls]

FixedCostsCall(m) ==
    [fn |-> "calculate_fixed_costs", Ls |-> m.Ls, Af |-> m.Af, Hf |-> m.Hf]

DmhrCall(m) ==
    [fn |-> "calculate_dmhr", Hf |-> m.Hf]

\* The loop keeping one result per label: a machine whose label already
\* has a result is skipped.
RECURSIVE LoopFromMerged(_, _, _, _)
LoopFromMerged(inputs, i, acc, made) ==
    IF i > Len(inputs)
    THEN [results |-> acc, exc |-> "none", calls |-> made]
    ELSE LET m   == inputs[i]
             fc  == calculate_fixed_costs(m.Pm, m.Ls, m.inflation_rate, m.insurance_rate,
                                          m.am, m.Af, m.Cb, m.Hf, m.Oc, m.tax_env_cost)
             vc  == calculate_variable_costs(m.Pt_m, m.Rt, m.Sm, m.Um, m.labour_rate, m.Hf)
             d   == calculate_dmhr(fc.value, vc.value, m.Hf)
             m1  == Append(made, FixedCostsCall(m))
             m2  == Append(m1, DmhrCall(m))
         IN  IF \E k \in 1..Len(acc) : acc[k].Machine = m.Machine
             THEN LoopFromMerged(inputs, i + 1, acc, made)
             ELSE IF fc.kind = "raise"
             THEN [results |-> acc, exc |-> fc.exc, calls |-> m1]
             ELSE IF d.kind = "raise"
             THEN [results |-> acc, exc |-> d.exc, calls |-> m2]
             ELSE LoopFromMerged(inputs, i + 1,
                           Append(acc, ResultRecord(m, fc.value, vc.value, d.value)), m2)

\* The loop dividing by the global Hf the widget loop left behind (the last
\* machine's) instead of m["Hf"].
RECURSIVE LoopFromGlobalHf(_, _, _, _)
LoopFromGlobalHf(inputs, i, acc, made) ==
    IF i > Len(inputs)
    THEN [results |-> acc, exc |-> "none", calls |-> made]
    ELSE LET m   == inputs[i]
             fc  == calculate_fixed_costs(m.Pm, m.Ls, m.inflation_rate, m.insurance_rate,
                                          m.am, m.Af, m.Cb, m.Hf, m.Oc, m.tax_env_cost)
             vc  == calculate_variable_costs(m.Pt_m, m.Rt, m.Sm, m.Um, m.labour_rate, m.Hf)
             d   == calculate_dmhr(fc.value, vc.value, inputs[Len(inputs)].Hf)
             m1  == Append(made, FixedCostsCall(m))
             m2  == Append(m1, DmhrCall(m))
         IN  IF fc.kind = "raise"
             THEN [results |-> acc, exc |-> fc.exc, calls |-> m1]
             ELSE IF d.kind = "raise"
             THEN [results |-> acc, exc |-> d.exc, calls |-> m2]
             ELSE LoopFromGlobalHf(inputs, i + 1,
                           Append(acc, ResultRecord(m, fc.value, vc.value, d.value)), m2)

\* The loop putting each result in front of the list.
RECURSIVE LoopFromPrepend(_, _, _, _)
LoopFromPrepend(inputs, i, acc, made) ==
    IF i > Len(inputs)
    THEN [results |-> acc, exc |-> "none", calls |-> made]
    ELSE LET m   == inputs[i]
             fc  == calculate_fixed_costs(m.Pm, m.Ls, m.inflation_rate, m.insurance_rate,
                                          m.am, m.Af, m.Cb, m.Hf, m.Oc, m.tax_env_cost)
             vc  == calculate_variable_costs(m.Pt_m, m.Rt, m.Sm, m.Um, m.labour_rate, m.Hf)
             d   == calculate_dmhr(fc.value, vc.value, m.Hf)
             m1  == Append(made, FixedCostsCall(m))
             m2  == Append(m1, DmhrCall(m))
         IN  IF fc.kind = "raise"
             THEN [results |-> acc, exc |-> fc.exc, calls |-> m1]
             ELSE IF d.kind = "raise"
             THEN [results |-> acc, exc |-> d.exc, calls |-> m2]
             ELSE LoopFromPrepend(inputs, i + 1,
                           <<ResultRecord(m, fc.value, vc.value, d.value)>> \o acc, m2)

\* "for m in machine_inputs", from machine i on, with the results appended
\* and the calls made so far.  An exception leaves the loop at once.
RECURSIVE LoopFrom(_, _, _, _)
LoopFrom(inputs, i, acc, made) ==
    IF i > Len(inputs)
    THEN [results |-> acc, exc |-> "none", calls |-> made]
    ELSE LET m   == inputs[i]
             fc  == calculate_fixed_costs(m.Pm, m.Ls, m.inflation_rate, m.insurance_rate,
                                          m.am, m.Af, m.Cb, m.Hf, m.Oc, m.tax_env_cost)
             vc  == calculate_variable_costs(m.Pt_m, m.Rt, m.Sm, m.Um, m.labour_rate, m.Hf)
             d   == calculate_dmhr(fc.value, vc.value, m.Hf)
             m1  == Append(made, FixedCostsCall(m))
             m2  == Append(m1, DmhrCall(m))
         IN  IF fc.kind = "raise"
             THEN [results |-> acc, exc |-> fc.exc, calls |-> m1]
             ELSE IF d.kind = "raise"
             THEN [results |-> acc, exc |-> d.exc, calls |-> m2]
             ELSE LoopFrom(inputs, i + 1,
                           Append(acc, ResultRecord(m, fc.value, vc.value, d.value)), m2)

CompareLoop(inputs) == LoopFrom(inputs, 1, <<>>, <<>>)

-----------------------------------------------------------------------------
(* The single-machine handler.                                             *)

NoCalc == [kind |-> "none"]

\* FC, VC and DMHR of the submitted form, or the exception raised.
SingleCalc(f) ==
    LET fc == calculate_fixed_costs(f.Pm, f.Ls, f.inflation_rate, f.insurance_rate,
                                    f.am, f.Af, f.Cb, f.Hf, f.Oc, f.tax_env_cost)
        vc == calculate_variable_costs(f.Pt_m, f.Rt, f.Sm, f.Um, f.labour_rate, f.Hf)
        d  == calculate_dmhr(fc.value, vc.value, f.Hf)
    IN  IF fc.kind = "raise" THEN [kind |-> "raise", exc |-> fc.exc, calls |-> <<FixedCostsCall(f)>>]
        ELSE IF d.kind = "raise"
        THEN [kind |-> "raise", exc |-> d.exc, calls |-> <<FixedCostsCall(f), DmhrCall(f)>>]
        ELSE [kind |-> "return", FC |-> fc.value, VC |-> vc.value, DMHR |-> d.value,
              calls |-> <<FixedCostsCall(f), DmhrCall(f)>>]

\* The three st.metric values.
Metrics(FC, VC, DMHR) ==
    [FC |-> Format2(FC), VC |-> Format2(VC), DMHR |-> Format2(DMHR)]

\* The "Amount" column of the Results sheet of export_single_excel.
export_single_excel(FC, VC, DMHR) ==
    [FixedCost    |-> Round2(FC),
     VariableCost |-> Round2(VC),
     TotalCost    |-> Round2(RAdd(FC, VC)),
     DMHR         |-> Round2(DMHR)]

-----------------------------------------------------------------------------
(* The app: one action per execution of the script.                        *)

NoCall == [fn |-> "none"]

\* What a run shows when no calculation button was pressed in it.
NothingShown ==
    /\ results' = <<>>
    /\ results_df' = <<>>
    /\ calc' = NoCalc
    /\ metrics' = NoCalc
    /\ report' = NoCalc
    /\ outcome' = "idle"
    /\ calls' = <<>>

\* The first run of a session: the radio shows "Single Machine" and the form
\* holds its defaults; no button has been pressed.
Init ==
    /\ mode = "Single Machine"
    /\ mc_count = 0
    /\ machine_inputs = <<>>
    /\ form = FormDefaults
    /\ results = <<>>
    /\ results_df = <<>>
    /\ calc = NoCalc
    /\ metrics = NoCalc
    /\ report = NoCalc
    /\ outcome = "idle"
    /\ calls = <<>>
    /\ call = NoCall
    /\ ret = NoCalc

\* The sidebar radio.  The widgets of the mode left are no longer rendered
\* and lose their values; those of the mode entered start at their defaults.
SelectMode(m) ==
    /\ m # mode
    /\ mode' = m
    /\ IF m = "Multi-Machine"
       THEN /\ mc_count' = MinMachines
            /\ machine_inputs' = [i \in 1..MinMachines |-> DefaultMachine(i)]
       ELSE /\ mc_count' = 0
            /\ machine_inputs' = <<>>
    /\ form' = FormDefaults
    /\ NothingShown
    /\ UNCHANGED <<call, ret>>

\* "How many machines to compare?": machines kept keep their widget values,
\* new ones start at the defaults.
SetMachineCount(n) ==
    /\ mode = "Multi-Machine"
    /\ n \in MinMachines..MaxMachines
    /\ n # mc_count
    /\ mc_count' = n
    /\ machine_inputs' = [i \in 1..n |-> IF i <= mc_count THEN machine_inputs[i]
                                                         ELSE DefaultMachine(i)]
    /\ NothingShown
    /\ UNCHANGED <<mode, form, call, ret>>

\* The user fills in the widgets of machine i; machine_inputs is collected
\* again from the widgets.
EditMachine(i, m) ==
    /\ mode = "Multi-Machine"
    /\ i \in 1..mc_count
    /\ m \in AcceptedMachines
    /\ m # machine_inputs[i]
    /\ machine_inputs' = [machine_inputs EXCEPT ![i] = m]
    /\ NothingShown
    /\ UNCHANGED <<mode, mc_count, form, call, ret>>

\* "Compare All Machines": the loop, then the table, charts and export when
\* the loop did not raise.
CompareAll ==
    /\ mode = "Multi-Machine"
    /\ LET run == CompareLoop(machine_inputs)
       IN  /\ results' = run.results
           /\ calls' = run.calls
           /\ outcome' = IF run.exc = "none" THEN "ok" ELSE run.exc
           /\ results_df' = IF run.exc = "none" THEN run.results ELSE <<>>
    /\ calc' = NoCalc
    /\ metrics' = NoCalc
    /\ report' = NoCalc
    /\ UNCHANGED <<mode, mc_count, machine_inputs, form, call, ret>>

\* "Calculate DMHR": the form sends the values f typed into it, and the
\* handler computes, shows and exports them.
Submit(f) ==
    /\ mode = "Single Machine"
    /\ FormWidgets(f)
    /\ form' = f
    /\ LET run == SingleCalc(f)
       IN  /\ calls' = run.calls
           /\ IF run.kind = "return"
              THEN /\ calc' = [kind |-> "return", FC |-> run.FC, VC |-> run.VC, DMHR |-> run.DMHR]
                   /\ metrics' = Metrics(run.FC, run.VC, run.DMHR)
                   /\ report' = export_single_excel(run.FC, run.VC, run.DMHR)
                   /\ outcome' = "ok"
              ELSE /\ calc' = NoCalc
                   /\ metrics' = NoCalc
                   /\ report' = NoCalc
                   /\ outcome' = run.exc
    /\ results' = <<>>
    /\ results_df' = <<>>
    /\ UNCHANGED <<mode, mc_count, machine_inputs, call, ret>>

\* A download button is clicked: the script runs again with neither
\* calculation button pressed.
Download ==
    /\ outcome = "ok"
    /\ NothingShown
    /\ UNCHANGED <<mode, mc_count, machine_inputs, form, call, ret>>

Next ==
    \/ \E m \in {"Single Machine", "Multi-Machine"} : SelectMode(m)
    \/ \E n \in MinMachines..MaxMachines : SetMachineCount(n)
    \/ \E i \in 1..MaxMachines, m \in TypedMachines : EditMachine(i, m)
    \/ CompareAll
    \/ \E f \in TypedForms \cup {FormDefaults} : Submit(f)
    \/ Download

Spec == Init /\ [][Next]_vars

-----------------------------------------------------------------------------
(* The calculation functions and the comparison loop on their own, given   *)
(* any numbers: ranges are enforced only by the widgets, not by this code. *)

MaxDivisor == 2

MaxBatch == 3

\* Values of the three divisors Ls, Af and Hf: negative, zero and positive.
DivisorVals == {R(v) : v \in -1..MaxDivisor}

CoreBase ==
    [Machine |-> "M",
     Pm |-> R(3), Ls |-> R(2), inflation_rate |-> Rat(1, 20), insurance_rate |-> Rat(1, 50),
     am |-> R(1), Af |-> R(2), Cb |-> R(7), Hf |-> R(2), Oc |-> R(5),
     tax_env_cost |-> R(11), Pt_m |-> R(2), Rt |-> R(3), Sm |-> R(4), Um |-> R(1),
     labour_rate |-> R(2)]

\* Argument records for direct calls of the three functions.
CoreMachines ==
    {[CoreBase EXCEPT !.Ls = l, !.Af = a, !.Hf = h, !.Pm = p, !.am = ar, !.Oc = o] :
        l \in DivisorVals, a \in DivisorVals, h \in DivisorVals,
        p \in {R(0), R(3)}, ar \in {R(0), R(1)}, o \in {R(0), R(5)}}
    \cup {MachineA, MachineB, MachineF}

\* FC and VC values handed to calculate_dmhr.
CostVals == {R(0), Rat(1, 3), R(210025), R(1250000)}

\* Machines of a batch handed to the comparison loop.
BatchMachines ==
    {[CoreBase EXCEPT !.Ls = l, !.Af = a, !.Hf = h] :
        l \in {R(0), R(2)}, a \in {R(0), R(2)}, h \in {R(-1), R(0), R(2)}}

Batches == UNION {[1..n -> BatchMachines] : n \in MinMachines..MaxBatch}

\* The calls a behaviour may start with, one per behaviour.
CoreCalls ==
    {[fn |-> "calculate_fixed_costs", args |-> m] : m \in CoreMachines}
    \cup {[fn |-> "calculate_variable_costs", args |-> m] : m \in CoreMachines}
    \cup {[fn |-> "calculate_dmhr", args |-> [FC |-> FC, VC |-> VC, Hf |-> Hf]] :
             FC \in CostVals, VC \in CostVals, Hf \in DivisorVals \cup {R(1000)}}
    \cup {[fn |-> "compare", args |-> b] : b \in Batches}

\* A call is chosen and not yet made.
InitCore ==
    /\ call \in CoreCalls
    /\ ret = NoCalc
    /\ mode = IF call.fn = "compare" THEN "Multi-Machine" ELSE "Single Machine"
    /\ mc_count = IF call.fn = "compare" THEN Len(call.args) ELSE 0
    /\ machine_inputs = IF call.fn = "compare" THEN call.args ELSE <<>>
    /\ form = FormDefaults
    /\ results = <<>>
    /\ results_df = <<>>
    /\ calc = NoCalc
    /\ metrics = NoCalc
    /\ report = NoCalc
    /\ outcome = "idle"
    /\ calls = <<>>

CallFixedCosts ==
    /\ call.fn = "calculate_fixed_costs"
    /\ ret = NoCalc
    /\ LET m == call.args
       IN  ret' = calculate_fixed_costs(m.Pm, m.Ls, m.inflation_rate, m.insurance_rate,
                                        m.am, m.Af, m.Cb, m.Hf, m.Oc, m.tax_env_cost)
    /\ UNCHANGED <<mode, mc_count, machine_inputs, form, results, results_df,
                   calc, metrics, report, outcome, calls, call>>

CallVariableCosts ==
    /\ call.fn = "calculate_variable_costs"
    /\ ret = NoCalc
    /\ LET m == call.args
       IN  ret' = calculate_variable_costs(m.Pt_m, m.Rt, m.Sm, m.Um, m.labour_rate, m.Hf)
    /\ UNCHANGED <<mode, mc_count, machine_inputs, form, results, results_df,
                   calc, metrics, report, outcome, calls, call>>

CallDmhr ==
    /\ call.fn = "calculate_dmhr"
    /\ ret = NoCalc
    /\ ret' = calculate_dmhr(call.args.FC, call.args.VC, call.args.Hf)
    /\ UNCHANGED <<mode, mc_count, machine_inputs, form, results, results_df,
                   calc, metrics, report, outcome, calls, call>>

\* The comparison loop run on the batch chosen.
CompareBatch ==
    /\ call.fn = "compare"
    /\ outcome = "idle"
    /\ LET run == CompareLoop(machine_inputs)
       IN  /\ results' = run.results
           /\ calls' = run.calls
           /\ outcome' = IF run.exc = "none" THEN "ok" ELSE run.exc
           /\ results_df' = IF run.exc = "none" THEN run.results ELSE <<>>
    /\ UNCHANGED <<mode, mc_count, machine_inputs, form, calc, metrics, report, call, ret>>

NextCore ==
    \/ CallFixedCosts
    \/ CallVariableCosts
    \/ CallDmhr
    \/ CompareBatch

SpecCore == InitCore /\ [][NextCore]_vars

-----------------------------------------------------------------------------
(* Properties.                                                             *)

\* A divisor the specification calls invalid: zero or negative.
InvalidDivisor(m) ==
    \/ RLeq(m.Ls, Zero)
    \/ RLeq(m.Af, Zero)
    \/ RLeq(m.Hf, Zero)

\* lifeSpanHours > 0, totalFactoryArea > 0 and every other input >= 0.
ValidInput(m) ==
    /\ RLess(Zero, m.Ls)
    /\ RLess(Zero, m.Af)
    /\ \A f \in {"Pm", "inflation_rate", "insurance_rate", "am", "Cb", "Hf", "Oc",
                 "tax_env_cost"} : RLeq(Zero, m[f])

\* The reference formula for FC, term by term.
ReferenceFC(m) ==
    LET amortized         == RDiv(m.Pm, m.Ls)
        inflationAdj      == RMul(m.Pm, m.inflation_rate)
        insuranceCost     == RMul(m.Pm, m.insurance_rate)
        buildingSpaceCost == RMul(RDiv(m.am, m.Af), m.Cb)
        overheadAllocated == RMul(RDiv(m.Hf, m.Ls), m.Oc)
    IN  RAdd(amortized, RAdd(inflationAdj, RAdd(insuranceCost,
             RAdd(buildingSpaceCost, RAdd(overheadAllocated, m.tax_env_cost)))))

\* The reference formulas for VC and DMHR.
ReferenceVC(m) ==
    RAdd(RMul(m.Pt_m, m.Rt), RAdd(RAdd(m.Sm, m.Um), RMul(m.labour_rate, m.Hf)))

ReferenceDMHR(m) == RDiv(RAdd(ReferenceFC(m), ReferenceVC(m)), m.Hf)

\* C1: calculate_fixed_costs called with Ls = 0 or Af = 0 ends in an error
\* for every choice of the other inputs; it never returns a number.
C1_ZeroDivisorRejected ==
    (/\ call.fn = "calculate_fixed_costs"
     /\ ret.kind # "none"
     /\ (call.args.Ls = Zero \/ call.args.Af = Zero))
    => ret.kind = "raise"

\* C2: calculate_dmhr called with Hf <= 0 ends in an error for every FC and
\* VC; it never returns a rate.
C2_NonPositiveHoursRejected ==
    (/\ call.fn = "calculate_dmhr"
     /\ ret.kind # "none"
     /\ RLeq(call.args.Hf, Zero))
    => ret.kind = "raise"

\* C3: a comparison of a batch in which some machine has an invalid divisor
\* fails, and has produced no result record for any machine of the batch.
C3_AllOrNothing ==
    (/\ mode = "Multi-Machine"
     /\ outcome # "idle"
     /\ \E i \in 1..Len(machine_inputs) : InvalidDivisor(machine_inputs[i]))
    => (outcome # "ok" /\ results = <<>>)

\* C4: a comparison of N machines (N from 2 to 6) produces exactly N result
\* records; the i-th carries the i-th input's label and is computed from the
\* i-th input, duplicate labels neither merged nor dropped.
C4_OrderAndLength ==
    (mode = "Multi-Machine" /\ outcome # "idle")
    => /\ outcome = "ok"
       /\ mc_count \in MinMachines..MaxMachines
       /\ Len(machine_inputs) = mc_count
       /\ Len(results) = mc_count
       /\ \A i \in 1..mc_count :
            LET m == machine_inputs[i]
            IN  /\ results[i].Machine = m.Machine
                /\ results[i].FixedCost = Round2(ReferenceFC(m))
                /\ results[i].VariableCost = Round2(ReferenceVC(m))
                /\ results[i].DMHR = Round2(ReferenceDMHR(m))
                /\ results[i].HoursUsed = m.Hf
                /\ results[i].PurchaseCost = m.Pm
                /\ results[i].Lifespan = m.Ls

\* Six machines compared, two of them with the same label and different
\* inputs.
C4_Witness ==
    /\ mode = "Multi-Machine"
    /\ outcome = "ok"
    /\ mc_count = MaxMachines
    /\ Len(results) = MaxMachines
    /\ \E i, j \in 1..mc_count :
         /\ i < j
         /\ machine_inputs[i].Machine = machine_inputs[j].Machine
         /\ machine_inputs[i] # machine_inputs[j]
         /\ results[i] # results[j]

\* The machines a user can put in place of one machine of the batch.
AltMachines(j) == AcceptedMachines \cup {DefaultMachine(j)}

\* C5: the result at position i does not depend on the other machines: a
\* comparison of the batch with any one other machine replaced gives the
\* identical result record at position i.
C5_NoCoupling ==
    (mode = "Multi-Machine" /\ outcome = "ok")
    => \A j \in 1..mc_count : \A m \in AltMachines(j) \ {machine_inputs[j]} :
         LET other == CompareLoop([machine_inputs EXCEPT ![j] = m])
         IN  /\ other.exc = "none"
             /\ Len(other.results) = Len(results)
             /\ \A i \in (1..mc_count) \ {j} : other.results[i] = results[i]

\* A comparison whose machines differ from one another.
C5_Witness ==
    /\ mode = "Multi-Machine"
    /\ outcome = "ok"
    /\ mc_count >= 3
    /\ machine_inputs[1] = MachineF
    /\ machine_inputs[2] = MachineA
    /\ machine_inputs[mc_count] = MachineB
    /\ results[1].DMHR # results[2].DMHR

\* C6: for every valid input calculate_fixed_costs returns exactly the
\* reference formula's value.
C6_FixedCostFormula ==
    (/\ call.fn = "calculate_fixed_costs"
     /\ ret.kind # "none"
     /\ ValidInput(call.args))
    => ret = Return(ReferenceFC(call.args))

\* A valid call in which all six terms are positive and differ.
C6_Witness ==
    /\ call.fn = "calculate_fixed_costs"
    /\ ret.kind = "return"
    /\ call.args = MachineA
    /\ ret.value = R(210025)

\* C7: the form's default values give FC = 210025, VC = 1250000 and
\* DMHR = 1460.025.
C7_SingleScenario ==
    (mode = "Single Machine" /\ outcome # "idle" /\ form = FormDefaults)
    => /\ outcome = "ok"
       /\ calc.FC = R(210025)
       /\ calc.VC = R(1250000)
       /\ calc.DMHR = Rat(1460025, 1000)

\* The default form submitted.
C7_Witness ==
    /\ mode = "Single Machine"
    /\ outcome = "ok"
    /\ form = FormDefaults
    /\ calc.kind = "return"

\* C8: in both modes DMHR is (FC + VC) / Hf of the unrounded FC and VC, and
\* rounding is applied afterwards, separately to FC, VC and DMHR, when the
\* result record, the metric or the report row is built.
C8_RoundingOnlyAtOutput ==
    /\ (mode = "Multi-Machine" /\ outcome = "ok")
       => \A i \in 1..Len(results) :
            LET m == machine_inputs[i]
            IN  /\ results[i].FixedCost = Round2(ReferenceFC(m))
                /\ results[i].VariableCost = Round2(ReferenceVC(m))
                /\ results[i].DMHR = Round2(RDiv(RAdd(ReferenceFC(m), ReferenceVC(m)), m.Hf))
    /\ (mode = "Single Machine" /\ outcome = "ok")
       => /\ calc.FC = ReferenceFC(form)
          /\ calc.VC = ReferenceVC(form)
          /\ calc.DMHR = RDiv(RAdd(calc.FC, calc.VC), form.Hf)
          /\ metrics = [FC |-> Round2(calc.FC), VC |-> Round2(calc.VC),
                        DMHR |-> Round2(calc.DMHR)]
          /\ report.FixedCost = Round2(calc.FC)
          /\ report.VariableCost = Round2(calc.VC)
          /\ report.TotalCost = Round2(RAdd(calc.FC, calc.VC))
          /\ report.DMHR = Round2(calc.DMHR)

\* A compared machine whose reported DMHR differs from the rate the rounded
\* FC and VC would give.
C8_Witness ==
    /\ mode = "Multi-Machine"
    /\ outcome = "ok"
    /\ \E i \in 1..Len(results) :
         results[i].DMHR #
           Round2(RDiv(RAdd(results[i].FixedCost, results[i].VariableCost),
                       machine_inputs[i].Hf))

\* C9: comparing Machine A with Machine B (A's values halved, hours used
\* kept) gives exactly two results in the order [A, B], B's DMHR strictly
\* less than A's.
C9_TwoMachineScenario ==
    (/\ mode = "Multi-Machine"
     /\ outcome # "idle"
     /\ machine_inputs = <<MachineA, MachineB>>)
    => /\ outcome = "ok"
       /\ Len(results) = 2
       /\ results[1].Machine = "A"
       /\ results[2].Machine = "B"
       /\ RLess(results[2].DMHR, results[1].DMHR)

\* Machines A and B compared.
C9_Witness ==
    /\ mode = "Multi-Machine"
    /\ outcome = "ok"
    /\ machine_inputs = <<MachineA, MachineB>>
    /\ Len(results) = 2

\* C10: in every run of the app the Ls, Af and Hf that reach
\* calculate_fixed_costs and calculate_dmhr are >= 1, so no calculation
\* divides by zero and the "Af != 0 else 0.0" branch is never taken.
C10_DivisorsAtLeastOne ==
    /\ outcome \in {"idle", "ok"}
    /\ mode = "Multi-Machine" => mc_count \in MinMachines..MaxMachines
    /\ \A k \in 1..Len(calls) :
         /\ RLeq(R(1), calls[k].Hf)
         /\ calls[k].fn = "calculate_fixed_costs"
            => /\ RLeq(R(1), calls[k].Ls)
               /\ RLeq(R(1), calls[k].Af)
               /\ calls[k].Af # Zero

\* Six machines compared, one of them at the widgets' minimum of 1, and
\* both functions called for each.
C10_Witness ==
    /\ mode = "Multi-Machine"
    /\ outcome = "ok"
    /\ mc_count = MaxMachines
    /\ Len(calls) = 2 * MaxMachines
    /\ \E k \in 1..Len(calls) :
         /\ calls[k].fn = "calculate_fixed_costs"
         /\ calls[k].Ls = R(1)
         /\ calls[k].Af = R(1)
         /\ calls[k].Hf = R(1)

====
